---- MODULE Spec2Model ----
(***************************************************************************)
(* A model of the MJPEG streaming core of src/video_stream.py: the         *)
(* FrameSource capture thread (_capture_loop), the lock-protected          *)
(* "latest frame" slot (get_latest_jpeg / _set_latest), the mjpeg_stream   *)
(* generators that serve viewers, and a thread calling FrameSource.stop(). *)
(* The telemetry agent of src/agent.py is a separate process: it has its   *)
(* own variables and its own specification, AgentSpec.                     *)
(*                                                                         *)
(* Time is counted in whole seconds.  Only time.sleep(1 / simulation_fps)  *)
(* of the capture loop and Thread.join(timeout=2) of stop() are timed;     *)
(* every other step of the capture thread takes no time, and a sleep or a  *)
(* join returns as soon as its time has passed.                            *)
(***************************************************************************)
EXTENDS Integers, Sequences, FiniteSets

\* Bound of the model: the number of raw frames the capture loop acquires.
MaxCycles == 2

\* Thread.join(timeout=2) in FrameSource.stop, in seconds.
JOIN_TIMEOUT == 2

\* The viewer connections (one mjpeg_stream generator each).
Consumers == {"v1", "v2"}

\* The thread names that can hold FrameSource._lock.
PRODUCER == "producer"

\* Python's None.
None == [none |-> TRUE]

\* The FrameSource object main() stores in the global frame_source.
FrameSourceObject == [class |-> "FrameSource"]

\* threading.Lock() when no thread holds it.
Unlocked == "unlocked"

\* --fps values, as fractions <<numerator, denominator>> of frames per second:
\* 1 fps, 1/3 fps and 0 fps (argparse type=float accepts all of them; a
\* negative rate ends the thread at line 55 as 0 does, by time.sleep's
\* ValueError).
FpsValues == {<<1, 1>>, <<1, 3>>, <<0, 1>>}

\* No get_latest_jpeg call has returned since the last _set_latest.
NoRead == [no_read |-> TRUE]

\* The exit status of a process that has not exited.
Running == [running |-> TRUE]

VARIABLES
    frame_source,     \* the module global: None or the FrameSource object
    simulation_fps,   \* FrameSource.simulation_fps, a fraction
    latest_jpeg,      \* FrameSource._latest_jpeg: None or encoded bytes
    lock,             \* FrameSource._lock: Unlocked or the thread holding it
    stop_event,       \* FrameSource._stop_event is set
    simulation_mode,  \* FrameSource._simulation_mode
    ppc,              \* position of the capture thread
    cap,              \* the cv2.VideoCapture: "none", "failed", "open", "released"
    releases,         \* number of cap.release() calls made
    hw_reads,         \* number of cap.read() calls made
    frame,            \* _capture_loop's local frame: None or a raw frame
    ok,               \* _capture_loop's local ok (of cap.read, then of imencode)
    buffer,           \* _capture_loop's local buffer: None or encoded bytes
    cycles,           \* number of raw frames acquired so far
    published,        \* the values passed to _set_latest, in call order
    sleep_left,       \* seconds left of the capture loop's time.sleep
    spc,              \* position of the thread calling stop()
    join_left,        \* seconds left of stop()'s join timeout
    cpc,              \* position of each mjpeg_stream generator
    jpeg,             \* mjpeg_stream's local jpeg, per generator
    part,             \* the part a generator is suspended on at its yield
    log,              \* the records video_stream.py has written to a log
    last_read,        \* what the last get_latest_jpeg since the last
                      \* _set_latest returned, NoRead if there was none
    stores_after_stop,\* number of _set_latest stores made with the stop event set
    slot_at_connect,  \* the slot's value when the generator was created,
                      \* kept until the generator's first part
    apc,              \* position of the agent's main()
    config_file,      \* the file --config names, as the agent finds it
    config,           \* main's local config: None or the validated dict
    response,         \* the outcome of the agent's last session.post
    sleep_arg,        \* the argument of the agent's last time.sleep
    battery,          \* telemetry_loop's local battery, in half percents
    register_posts,   \* register POSTs sent (counted up to MaxCount)
    telemetry_posts,  \* telemetry POSTs sent (counted up to MaxCount)
    registered,       \* a register POST has been answered with status 200
    agent_log,        \* the messages the agent's logger has written
    exit_status       \* the agent's exit status, Running while it runs

vars == <<frame_source, simulation_fps, latest_jpeg, lock, stop_event,
          simulation_mode, ppc, cap, releases, hw_reads, frame, ok, buffer,
          cycles, published, sleep_left, spc, join_left, cpc, jpeg, part,
          log, last_read, stores_after_stop, slot_at_connect,
          apc, config_file, config, response, sleep_arg, battery,
          register_posts, telemetry_posts, registered, agent_log,
          exit_status>>

\* The variables of the agent process (src/agent.py).
agent_vars == <<apc, config_file, config, response, sleep_arg, battery,
                register_posts, telemetry_posts, registered, agent_log,
          exit_status>>

\* The variables of the streaming server process (src/video_stream.py).
video_vars == <<frame_source, simulation_fps, latest_jpeg, lock, stop_event,
                simulation_mode, ppc, cap, releases, hw_reads, frame, ok,
                buffer, cycles, published, sleep_left, spc, join_left, cpc,
                jpeg, part, log, last_read, stores_after_stop,
                slot_at_connect>>

producer_vars == <<simulation_mode, ppc, cap, releases, hw_reads, frame, ok,
                   buffer, cycles, published, sleep_left>>

consumer_vars == <<cpc, jpeg, part>>

stopper_vars == <<spc, join_left>>

----
\* Raw frames.  n is the index of the acquisition that produced the frame; it
\* tells apart frames whose pixels may be equal.

\* cap.read() returned (True, frame).
HardwareFrame(n) == [src |-> "camera", n |-> n]

\* FrameSource._simulation_frame: the 640x480 "SIMULATION FEED" image.
SimulationFrame(n) == [src |-> "SIMULATION FEED", n |-> n]

\* cv2.imencode(".jpg", frame) followed by buffer.tobytes().
Imencode(f) == [format |-> "jpg", image |-> f]

\* The raw image a JPEG payload decodes to.
Decode(j) == j.image

IsSynthetic(j) == j # None /\ Decode(j).src = "SIMULATION FEED"

\* The section mjpeg_stream yields for one frame.
MultipartSection(j) ==
    [boundary |-> "--frame\r\n", header |-> "Content-Type: image/jpeg\r\n\r\n",
     payload |-> j, terminator |-> "\r\n"]

Payload(p) == p.payload

\* The argument of time.sleep(1 / self.simulation_fps), in seconds.
SleepSeconds(fps) == fps[2] \div fps[1]

ThreadAlive == ppc \notin {"unstarted", "done", "crashed"}

----
\* The state when the module has been imported: frame_source = None (line 76).
\* The FrameSource fields have the values FrameSource.__init__ gives them; the
\* capture rate is the one main() will pass.
VideoInit ==
    /\ frame_source = None
    /\ simulation_fps \in FpsValues
    /\ latest_jpeg = None
    /\ lock = Unlocked
    /\ stop_event = FALSE
    /\ simulation_mode = FALSE
    /\ ppc = "unstarted"
    /\ cap = "none"
    /\ releases = 0
    /\ hw_reads = 0
    /\ frame = None
    /\ ok = FALSE
    /\ buffer = None
    /\ cycles = 0
    /\ published = <<>>
    /\ sleep_left = 0
    /\ spc = "idle"
    /\ join_left = 0
    /\ cpc = [c \in Consumers |-> "idle"]
    /\ jpeg = [c \in Consumers |-> None]
    /\ part = [c \in Consumers |-> None]
    /\ log = <<>>
    /\ last_read = NoRead
    /\ stores_after_stop = 0
    /\ slot_at_connect = [c \in Consumers |-> None]

\* The agent process has not been started.
AgentNotStarted ==
    /\ apc = "not_started"
    /\ config_file = None
    /\ config = None
    /\ response = None
    /\ sleep_arg = 0
    /\ battery = 0
    /\ register_posts = 0
    /\ telemetry_posts = 0
    /\ registered = FALSE
    /\ agent_log = {}
    /\ exit_status = Running

\* The streaming server alone: the agent is another process, with no state in
\* common with the server, and is left out of the server's behaviours.
Init == VideoInit /\ AgentNotStarted

----
\* main(), line 118: frame_source = FrameSource(args.camera, simulation_fps=args.fps)
Construct ==
    /\ frame_source = None
    /\ frame_source' = FrameSourceObject
    /\ UNCHANGED <<log, last_read, stores_after_stop, slot_at_connect, agent_vars>>
    /\ UNCHANGED <<simulation_fps, latest_jpeg, lock, stop_event, producer_vars,
                   stopper_vars, consumer_vars>>

\* FrameSource.start: self._thread.start()
Start ==
    /\ frame_source = FrameSourceObject
    /\ ppc = "unstarted"
    /\ ppc' = "open"
    /\ UNCHANGED <<log, last_read, stores_after_stop, slot_at_connect, agent_vars>>
    /\ UNCHANGED <<frame_source, simulation_fps, latest_jpeg, lock, stop_event,
                   simulation_mode, cap, releases, hw_reads, frame, ok, buffer,
                   cycles, published, sleep_left, stopper_vars, consumer_vars>>

\* A capture loop that does not fall back when the device cannot be opened.
ModeAfterOpenNoFallback(opened) == simulation_mode

\* lines 38-39: if not cap.isOpened(): self._simulation_mode = True
ModeAfterOpen(opened) == IF opened THEN simulation_mode ELSE TRUE

\* _capture_loop, lines 37-42: open the device; isOpened() is the environment's
\* answer.  An open failure sets _simulation_mode.
OpenDevice ==
    /\ ppc = "open"
    /\ \E opened \in BOOLEAN :
         /\ cap' = IF opened THEN "open" ELSE "failed"
         /\ simulation_mode' = ModeAfterOpen(opened)
    /\ ppc' = "while"
    /\ UNCHANGED <<log, last_read, stores_after_stop, slot_at_connect, agent_vars>>
    /\ UNCHANGED <<frame_source, simulation_fps, latest_jpeg, lock, stop_event,
                   releases, hw_reads, frame, ok, buffer, cycles, published,
                   sleep_left, stopper_vars, consumer_vars>>

\* A loop test that sees the stop event only when the loop has run all its
\* cycles.
StopIsSetLate == stop_event /\ cycles >= MaxCycles

\* line 44: self._stop_event.is_set()
StopIsSet == stop_event

\* line 44, stop event not set: enter the loop body.
LoopContinue ==
    /\ ppc = "while"
    /\ ~StopIsSet
    /\ cycles < MaxCycles
    /\ ppc' = "acquire"
    /\ UNCHANGED <<log, last_read, stores_after_stop, slot_at_connect, agent_vars>>
    /\ UNCHANGED <<frame_source, simulation_fps, latest_jpeg, lock, stop_event,
                   simulation_mode, cap, releases, hw_reads, frame, ok, buffer,
                   cycles, published, sleep_left, stopper_vars, consumer_vars>>

\* line 44, stop event set: leave the loop for lines 57-58.
LoopExit ==
    /\ ppc = "while"
    /\ StopIsSet
    /\ ppc' = "after_loop"
    /\ UNCHANGED <<log, last_read, stores_after_stop, slot_at_connect, agent_vars>>
    /\ UNCHANGED <<frame_source, simulation_fps, latest_jpeg, lock, stop_event,
                   simulation_mode, cap, releases, hw_reads, frame, ok, buffer,
                   cycles, published, sleep_left, stopper_vars, consumer_vars>>

\* lines 45-46: frame = self._simulation_frame()
SimulationCycle ==
    /\ ppc = "acquire"
    /\ simulation_mode
    /\ frame' = SimulationFrame(cycles + 1)
    /\ cycles' = cycles + 1
    /\ ppc' = "encode"
    /\ UNCHANGED <<log, last_read, stores_after_stop, slot_at_connect, agent_vars>>
    /\ UNCHANGED <<frame_source, simulation_fps, latest_jpeg, lock, stop_event,
                   simulation_mode, cap, releases, hw_reads, ok, buffer,
                   published, sleep_left, stopper_vars, consumer_vars>>

\* A capture loop that goes on reading the device after a failed read.
ModeAfterReadNoLatch(read_ok) == simulation_mode

\* lines 49-50: if not ok: self._simulation_mode = True
ModeAfterRead(read_ok) == IF read_ok THEN simulation_mode ELSE TRUE

\* lines 47-51: ok, frame = cap.read(); a failed read sets _simulation_mode and
\* continues with the next iteration (no encode, no sleep).
HardwareCycle ==
    /\ ppc = "acquire"
    /\ ~simulation_mode
    /\ hw_reads' = hw_reads + 1
    /\ \E read_ok \in BOOLEAN :
         /\ ok' = read_ok
         /\ IF read_ok
               THEN /\ frame' = HardwareFrame(cycles + 1)
                    /\ cycles' = cycles + 1
                    /\ ppc' = "encode"
               ELSE /\ frame' = None
                    /\ ppc' = "while"
                    /\ UNCHANGED cycles
         /\ simulation_mode' = ModeAfterRead(read_ok)
    /\ UNCHANGED <<log, last_read, stores_after_stop, slot_at_connect, agent_vars>>
    /\ UNCHANGED <<frame_source, simulation_fps, latest_jpeg, lock, stop_event,
                   cap, releases, buffer, published, sleep_left,
                   stopper_vars, consumer_vars>>

\* lines 52-54: ok, buffer = cv2.imencode(".jpg", frame); if ok, call
\* self._set_latest(buffer.tobytes()).  Whether the encoder succeeds is the
\* environment's answer.
Encode ==
    /\ ppc = "encode"
    /\ \E encoded \in BOOLEAN :
         /\ ok' = encoded
         /\ IF encoded
               THEN /\ buffer' = Imencode(frame)
                    /\ published' = Append(published, Imencode(frame))
                    /\ ppc' = "set_latest"
               ELSE /\ buffer' = None
                    /\ UNCHANGED published
                    /\ ppc' = "sleep_call"
    /\ UNCHANGED <<log, last_read, stores_after_stop, slot_at_connect, agent_vars>>
    /\ UNCHANGED <<frame_source, simulation_fps, latest_jpeg, lock, stop_event,
                   simulation_mode, cap, releases, hw_reads, frame, cycles,
                   sleep_left, stopper_vars, consumer_vars>>

\* A lock that excludes nobody (each with statement locks a lock of its own).
LockFreeAlways == TRUE

\* threading.Lock.acquire can succeed: no thread holds the lock.
LockFree == lock = Unlocked

\* _set_latest, line 33: with self._lock (acquire)
SetLatestAcquire ==
    /\ ppc = "set_latest"
    /\ LockFree
    /\ lock' = PRODUCER
    /\ ppc' = "set_latest_locked"
    /\ UNCHANGED <<log, last_read, stores_after_stop, slot_at_connect, agent_vars>>
    /\ UNCHANGED <<frame_source, simulation_fps, latest_jpeg, stop_event,
                   simulation_mode, cap, releases, hw_reads, frame, ok, buffer,
                   cycles, published, sleep_left, stopper_vars, consumer_vars>>

\* A _set_latest that takes the lock and leaves the slot as it was.
StoredValueDropped(jpeg_bytes) == latest_jpeg

\* A _set_latest that fills the slot once and keeps the first frame.
StoredValueKeepFirst(jpeg_bytes) ==
    IF latest_jpeg = None THEN jpeg_bytes ELSE latest_jpeg

\* The value _set_latest leaves in self._latest_jpeg.
StoredValue(jpeg_bytes) == jpeg_bytes

\* _set_latest, line 34: self._latest_jpeg = jpeg_bytes, then the with block
\* releases the lock and the call returns to line 55.
SetLatestStore ==
    /\ ppc = "set_latest_locked"
    /\ latest_jpeg' = StoredValue(buffer)
    /\ last_read' = NoRead
    /\ stores_after_stop' = IF stop_event THEN stores_after_stop + 1
                                          ELSE stores_after_stop
    /\ lock' = Unlocked
    /\ ppc' = "sleep_call"
    /\ UNCHANGED <<log, slot_at_connect, agent_vars>>
    /\ UNCHANGED <<frame_source, simulation_fps, stop_event, simulation_mode,
                   cap, releases, hw_reads, frame, ok, buffer, cycles,
                   published, sleep_left, stopper_vars, consumer_vars>>

\* line 55: time.sleep(1 / self.simulation_fps).  With simulation_fps = 0 the
\* division raises ZeroDivisionError, which nothing catches: the thread ends.
SleepCall ==
    /\ ppc = "sleep_call"
    /\ IF simulation_fps[1] = 0
          THEN ppc' = "crashed" /\ UNCHANGED sleep_left
          ELSE ppc' = "sleep" /\ sleep_left' = SleepSeconds(simulation_fps)
    /\ UNCHANGED <<log, last_read, stores_after_stop, slot_at_connect, agent_vars>>
    /\ UNCHANGED <<frame_source, simulation_fps, latest_jpeg, lock, stop_event,
                   simulation_mode, cap, releases, hw_reads, frame, ok, buffer,
                   cycles, published, stopper_vars, consumer_vars>>

\* time.sleep returns once its time has passed; back to line 44.
Wake ==
    /\ ppc = "sleep"
    /\ sleep_left = 0
    /\ ppc' = "while"
    /\ UNCHANGED <<log, last_read, stores_after_stop, slot_at_connect, agent_vars>>
    /\ UNCHANGED <<frame_source, simulation_fps, latest_jpeg, lock, stop_event,
                   simulation_mode, cap, releases, hw_reads, frame, ok, buffer,
                   cycles, published, sleep_left, stopper_vars, consumer_vars>>

\* lines 57-58: if not self._simulation_mode: cap.release(); the thread ends.
AfterLoop ==
    /\ ppc = "after_loop"
    /\ IF ~simulation_mode
          THEN cap' = "released" /\ releases' = releases + 1
          ELSE UNCHANGED <<cap, releases>>
    /\ ppc' = "done"
    /\ UNCHANGED <<log, last_read, stores_after_stop, slot_at_connect, agent_vars>>
    /\ UNCHANGED <<frame_source, simulation_fps, latest_jpeg, lock, stop_event,
                   simulation_mode, hw_reads, frame, ok, buffer, cycles,
                   published, sleep_left, stopper_vars, consumer_vars>>

----
\* FrameSource.stop, lines 25-26: set the stop event, then join the thread for
\* at most JOIN_TIMEOUT seconds.  Thread.join raises RuntimeError on a thread
\* that was never started.
Stop ==
    /\ spc = "idle"
    /\ frame_source = FrameSourceObject
    /\ stop_event' = TRUE
    /\ IF ppc = "unstarted"
          THEN spc' = "raised" /\ UNCHANGED join_left
          ELSE spc' = "joining" /\ join_left' = JOIN_TIMEOUT
    /\ UNCHANGED <<log, last_read, stores_after_stop, slot_at_connect, agent_vars>>
    /\ UNCHANGED <<frame_source, simulation_fps, latest_jpeg, lock,
                   producer_vars, consumer_vars>>

\* join returns because the thread has ended.
JoinReturn ==
    /\ spc = "joining"
    /\ ~ThreadAlive
    /\ spc' = "returned"
    /\ join_left' = 0
    /\ UNCHANGED <<log, last_read, stores_after_stop, slot_at_connect, agent_vars>>
    /\ UNCHANGED <<frame_source, simulation_fps, latest_jpeg, lock, stop_event,
                   producer_vars, consumer_vars>>

\* join returns because its timeout has passed.
JoinTimeout ==
    /\ spc = "joining"
    /\ join_left = 0
    /\ spc' = "returned"
    /\ UNCHANGED <<log, last_read, stores_after_stop, slot_at_connect, agent_vars>>
    /\ UNCHANGED <<frame_source, simulation_fps, latest_jpeg, lock, stop_event,
                   producer_vars, join_left, consumer_vars>>

\* The capture thread is at a step that takes time: it is not running, or it
\* is asleep and its sleep has time left.
ProducerWaiting ==
    \/ ppc \in {"unstarted", "done", "crashed"}
    \/ ppc = "sleep" /\ sleep_left > 0

\* One second passes.  A join whose thread has ended or whose timeout has
\* passed returns before more time passes.
Tick ==
    /\ ProducerWaiting
    /\ spc = "joining" => (join_left > 0 /\ ThreadAlive)
    /\ sleep_left > 0 \/ join_left > 0
    /\ sleep_left' = IF sleep_left > 0 THEN sleep_left - 1 ELSE 0
    /\ join_left' = IF join_left > 0 THEN join_left - 1 ELSE 0
    /\ UNCHANGED <<log, last_read, stores_after_stop, slot_at_connect, agent_vars>>
    /\ UNCHANGED <<frame_source, simulation_fps, latest_jpeg, lock, stop_event,
                   simulation_mode, ppc, cap, releases, hw_reads, frame, ok,
                   buffer, cycles, published, spc, consumer_vars>>

----
\* A client requests GET /stream.mjpg: stream() creates a new mjpeg_stream
\* generator for the connection.
Connect(c) ==
    /\ cpc[c] = "idle"
    /\ cpc' = [cpc EXCEPT ![c] = "top"]
    /\ slot_at_connect' = [slot_at_connect EXCEPT ![c] = latest_jpeg]
    /\ UNCHANGED <<log, last_read, stores_after_stop, agent_vars>>
    /\ UNCHANGED <<frame_source, simulation_fps, latest_jpeg, lock, stop_event,
                   producer_vars, stopper_vars, jpeg, part>>

\* mjpeg_stream, line 81: if frame_source is None
CheckSource(c) ==
    /\ cpc[c] = "top"
    /\ cpc' = [cpc EXCEPT ![c] = IF frame_source = None THEN "wait_source"
                                                         ELSE "get_latest"]
    /\ UNCHANGED <<log, last_read, stores_after_stop, slot_at_connect, agent_vars>>
    /\ UNCHANGED <<frame_source, simulation_fps, latest_jpeg, lock, stop_event,
                   producer_vars, stopper_vars, jpeg, part>>

\* lines 82-83: time.sleep(0.1); continue
WaitSource(c) ==
    /\ cpc[c] = "wait_source"
    /\ cpc' = [cpc EXCEPT ![c] = "top"]
    /\ UNCHANGED <<log, last_read, stores_after_stop, slot_at_connect, agent_vars>>
    /\ UNCHANGED <<frame_source, simulation_fps, latest_jpeg, lock, stop_event,
                   producer_vars, stopper_vars, jpeg, part>>

\* get_latest_jpeg, line 29: with self._lock (acquire)
GetLatestAcquire(c) ==
    /\ cpc[c] = "get_latest"
    /\ LockFree
    /\ lock' = c
    /\ cpc' = [cpc EXCEPT ![c] = "get_latest_locked"]
    /\ UNCHANGED <<log, last_read, stores_after_stop, slot_at_connect, agent_vars>>
    /\ UNCHANGED <<frame_source, simulation_fps, latest_jpeg, stop_event,
                   producer_vars, stopper_vars, jpeg, part>>

\* A get_latest_jpeg that returns the slot's value to the first caller after
\* a _set_latest only, and None to the callers after it.
ReturnedValueOnce == IF last_read = NoRead THEN latest_jpeg ELSE None

\* A get_latest_jpeg that returns the first frame _set_latest was ever given.
ReturnedValueFirst == IF published = <<>> THEN None ELSE published[1]

\* The value get_latest_jpeg returns.
ReturnedValue == latest_jpeg

\* A get_latest_jpeg that takes the frame out of the slot.
SlotAfterGetCleared == None

\* get_latest_jpeg, lines 29-30: the slot when the call has returned.
SlotAfterGet == latest_jpeg

\* An emptiness test that lets an empty read through to the yield.
IsEmptyNever(j) == FALSE

\* mjpeg_stream, line 85: if jpeg is None
IsEmpty(j) == j = None

\* A get_latest_jpeg whose caller keeps the lock after the return (the rest of
\* mjpeg_stream's loop body placed inside the with block).
LockAfterGetHeld(c) == c

\* get_latest_jpeg, lines 29-30: the lock when the with block has been left.
LockAfterGet(c) == Unlocked

\* get_latest_jpeg, line 30: return self._latest_jpeg, releasing the lock;
\* mjpeg_stream, lines 84-88: jpeg = ...; if jpeg is None, go to the backoff
\* sleep, else yield the multipart section (the generator is suspended there).
GetLatestReturn(c) ==
    /\ cpc[c] = "get_latest_locked"
    /\ lock' = LockAfterGet(c)
    /\ jpeg' = [jpeg EXCEPT ![c] = ReturnedValue]
    /\ latest_jpeg' = SlotAfterGet
    /\ last_read' = ReturnedValue
    /\ IF IsEmpty(ReturnedValue)
          THEN /\ cpc' = [cpc EXCEPT ![c] = "backoff"]
               /\ UNCHANGED <<part, slot_at_connect>>
          ELSE /\ cpc' = [cpc EXCEPT ![c] = "yield"]
               /\ part' = [part EXCEPT ![c] = MultipartSection(ReturnedValue)]
               /\ slot_at_connect' = [slot_at_connect EXCEPT ![c] = None]
    /\ UNCHANGED <<log, stores_after_stop, agent_vars>>
    /\ UNCHANGED <<frame_source, simulation_fps, stop_event,
                   producer_vars, stopper_vars>>

\* lines 86-87: time.sleep(0.05); continue
Backoff(c) ==
    /\ cpc[c] = "backoff"
    /\ cpc' = [cpc EXCEPT ![c] = "top"]
    /\ UNCHANGED <<log, last_read, stores_after_stop, slot_at_connect, agent_vars>>
    /\ UNCHANGED <<frame_source, simulation_fps, latest_jpeg, lock, stop_event,
                   producer_vars, stopper_vars, jpeg, part>>

\* The server has written the part and asks the generator for the next one:
\* execution resumes after the yield of line 88, at line 80.
Resume(c) ==
    /\ cpc[c] = "yield"
    /\ cpc' = [cpc EXCEPT ![c] = "top"]
    /\ part' = [part EXCEPT ![c] = None]
    /\ UNCHANGED <<log, last_read, stores_after_stop, slot_at_connect, agent_vars>>
    /\ UNCHANGED <<frame_source, simulation_fps, latest_jpeg, lock, stop_event,
                   producer_vars, stopper_vars, jpeg>>

\* The client disconnects: the server closes the generator, which raises
\* GeneratorExit at the yield it is suspended on.
Close(c) ==
    /\ cpc[c] = "yield"
    /\ cpc' = [cpc EXCEPT ![c] = "closed"]
    /\ part' = [part EXCEPT ![c] = None]
    /\ UNCHANGED <<log, last_read, stores_after_stop, slot_at_connect, agent_vars>>
    /\ UNCHANGED <<frame_source, simulation_fps, latest_jpeg, lock, stop_event,
                   producer_vars, stopper_vars, jpeg>>

----
ProducerStep ==
    \/ OpenDevice
    \/ LoopContinue
    \/ LoopExit
    \/ SimulationCycle
    \/ HardwareCycle
    \/ Encode
    \/ SetLatestAcquire
    \/ SetLatestStore
    \/ SleepCall
    \/ Wake
    \/ AfterLoop

ConsumerStep(c) ==
    \/ CheckSource(c)
    \/ WaitSource(c)
    \/ GetLatestAcquire(c)
    \/ GetLatestReturn(c)
    \/ Backoff(c)
    \/ Resume(c)

Next ==
    \/ Construct
    \/ Start
    \/ ProducerStep
    \/ Stop
    \/ JoinReturn
    \/ JoinTimeout
    \/ Tick
    \/ \E c \in Consumers : Connect(c) \/ ConsumerStep(c) \/ Close(c)

Spec == Init /\ [][Next]_vars

\* The capture thread's steps in a process in which stop() is never called.
RunningProducerStep ==
    \/ OpenDevice
    \/ LoopContinue
    \/ SimulationCycle
    \/ HardwareCycle
    \/ Encode
    \/ SetLatestAcquire
    \/ SetLatestStore
    \/ SleepCall
    \/ Wake

\* The server process as main() runs it: main() constructs and starts the
\* FrameSource and serves requests; nothing in the repository calls stop().
MainNext ==
    \/ Construct
    \/ Start
    \/ RunningProducerStep
    \/ Tick
    \/ \E c \in Consumers : Connect(c) \/ ConsumerStep(c) \/ Close(c)

\* Fair scheduling of the server process: main() runs to its app.run, time
\* passes, and the capture thread and every connected generator keep being
\* scheduled, also when they have to compete for the lock.  Nothing obliges a
\* client to connect or to disconnect.
MainFairSpec ==
    /\ Init
    /\ [][MainNext]_vars
    /\ WF_vars(Construct)
    /\ WF_vars(Start)
    /\ WF_vars(Tick)
    /\ SF_vars(RunningProducerStep)
    /\ \A c \in Consumers : SF_vars(ConsumerStep(c))

----
\* Helpers of the properties.

Range(q) == {q[i] : i \in 1..Len(q)}

\* The N-th value passed to _set_latest, None for N = 0.
Published(n) == IF n = 0 THEN None ELSE published[n]

\* _set_latest has been called and has not returned yet.
PublishInProgress == ppc \in {"set_latest", "set_latest_locked"}

\* The number of _set_latest calls that have returned.
PublishesDone ==
    IF PublishInProgress THEN Len(published) - 1 ELSE Len(published)

----
\* C1: published-order consistency.  After the N-th call of _set_latest has
\* returned and until the (N+1)-th call stores its value, the slot holds
\* exactly the N-th published frame, and that is what get_latest_jpeg returns
\* to a reader inside it; before the first publish the slot is empty.
C1_PublishedOrder ==
    /\ ppc # "set_latest_locked" => latest_jpeg = Published(PublishesDone)
    /\ ppc = "set_latest_locked" =>
          latest_jpeg = Published(Len(published) - 1)
    /\ \A c \in Consumers :
          cpc[c] = "get_latest_locked" => ReturnedValue = Published(PublishesDone)
    /\ \A i \in 1..Len(published) : \A j \in 1..Len(published) :
          i < j => Decode(published[i]).n < Decode(published[j]).n

\* Two frames were published and a reader is returning the second.
C1_Witness ==
    /\ Len(published) = 2
    /\ ~PublishInProgress
    /\ latest_jpeg = published[2]
    /\ latest_jpeg # published[1]
    /\ \E c \in Consumers : cpc[c] = "get_latest_locked"

\* C2: on every path by which _capture_loop ends after the device was opened,
\* cap.release() has been called exactly once.
C2_ReleasedExactlyOnce ==
    (ppc = "done" /\ cap # "failed") => releases = 1

\* C3: if the device cannot be opened, the loop is in synthetic mode from its
\* first cycle: cap.read() is never called and every frame acquired, published
\* or held by the slot is the synthetic placeholder.
C3_OpenFailureIsSynthetic ==
    cap = "failed" =>
        /\ simulation_mode
        /\ hw_reads = 0
        /\ frame # None => frame.src = "SIMULATION FEED"
        /\ \A i \in 1..Len(published) : IsSynthetic(published[i])
        /\ latest_jpeg # None => IsSynthetic(latest_jpeg)

\* The open failed and the slot holds the second synthetic frame.
C3_Witness ==
    /\ cap = "failed"
    /\ Len(published) >= 2
    /\ IsSynthetic(latest_jpeg)
    /\ Decode(latest_jpeg).n >= 2

\* C4: the capture mode is a one-way latch.  A failed cap.read() sets
\* _simulation_mode; once set it is never cleared; cap.read() is called only
\* while it is clear; and every frame handed to _set_latest while it is set is
\* synthetic.
C4_OneWayLatch ==
    /\ [][(hw_reads' # hw_reads /\ cycles' = cycles) => simulation_mode']_vars
    /\ [][simulation_mode => simulation_mode']_vars
    /\ [][hw_reads' # hw_reads => ~simulation_mode]_vars
    /\ [][(simulation_mode /\ Len(published') > Len(published)) =>
             IsSynthetic(published'[Len(published')])]_vars

\* The device was opened, a camera frame was published, a later read failed and
\* the slot now holds a synthetic frame.
C4_Witness ==
    /\ cap = "open"
    /\ simulation_mode
    /\ \E i \in 1..Len(published) : ~IsSynthetic(published[i])
    /\ IsSynthetic(latest_jpeg)

\* C5: an encode failure publishes nothing and leaves the slot unchanged, and
\* the loop does not end: the thread goes on to its sleep and from there to the
\* loop test; a later successful encode is stored in the slot.
C5_EncodeFailureSkipped ==
    /\ [][(ppc = "encode" /\ ppc' # "encode" /\ ~ok') =>
             (latest_jpeg' = latest_jpeg /\ published' = published)]_vars
    /\ [][(ppc = "sleep_call" /\ ~ok) => ppc' \in {"sleep_call", "sleep"}]_vars
    /\ [][ppc = "sleep" => ppc' \in {"sleep", "while"}]_vars
    /\ [][(ppc = "set_latest_locked" /\ ppc' # ppc) =>
             latest_jpeg' = published[Len(published)]]_vars

\* C6: the capture loop terminates within the time stop() waits for it: when
\* stop() returns, the capture thread has ended.  (That the device has then
\* been released as well is what C2 states of the loop's end.)
C6_StopWaitsForLoop ==
    spc = "returned" => ~ThreadAlive

----
\* The threads inside the critical section of FrameSource._lock.
InCriticalSection ==
    {c \in Consumers : cpc[c] = "get_latest_locked"}
        \cup (IF ppc = "set_latest_locked" THEN {PRODUCER} ELSE {})

\* C7: the slot is read and written atomically.  At most one thread is inside
\* the lock's critical section; the slot, the value a reader is returning and
\* the value every reader got are empty or one whole value that was passed to
\* _set_latest, and a read returns the previous or the current published frame.
C7_AtomicSlot ==
    /\ Cardinality(InCriticalSection) <= 1
    /\ latest_jpeg \in {None} \cup Range(published)
    /\ \A c \in Consumers :
          /\ jpeg[c] \in {None} \cup Range(published)
          /\ cpc[c] = "get_latest_locked" =>
                ReturnedValue \in {Published(Len(published)),
                                   Published(PublishesDone)}

\* A reader is inside the critical section while the producer, which has a new
\* frame to store, and the other reader wait for the lock.
C7_Witness ==
    /\ cpc["v1"] = "get_latest_locked"
    /\ cpc["v2"] = "get_latest"
    /\ ppc = "set_latest"
    /\ Len(published) = 2
    /\ ReturnedValue = published[1]

----
\* The holder of the lock can take the step that releases it.
HolderCanRelease ==
    /\ lock = PRODUCER => ENABLED SetLatestStore
    /\ \A c \in Consumers : lock = c => ENABLED GetLatestReturn(c)

\* C8: viewers block neither each other nor the producer.  A consumer holds the
\* lock only inside get_latest_jpeg (never in a backoff sleep, never suspended
\* at its yield); whoever holds the lock can release it; every connected
\* consumer and the running producer can take a step, or waits for the lock,
\* which its holder can release, or (the producer) sleeps or has reached the
\* bound of the model.
C8_NoBlocking ==
    /\ \A c \in Consumers : lock = c <=> cpc[c] = "get_latest_locked"
    /\ lock = PRODUCER <=> ppc = "set_latest_locked"
    /\ HolderCanRelease
    /\ \A c \in Consumers :
          \/ cpc[c] \in {"idle", "closed"}
          \/ ENABLED ConsumerStep(c)
          \/ cpc[c] = "get_latest" /\ lock # Unlocked /\ HolderCanRelease
    /\ \/ ~ThreadAlive
       \/ ENABLED ProducerStep
       \/ ppc = "set_latest" /\ lock \in Consumers /\ HolderCanRelease
       \/ ppc = "sleep" /\ sleep_left > 0
       \/ ppc = "while" /\ ~stop_event /\ cycles = MaxCycles

\* One consumer is stalled at its yield on the first frame while the producer
\* has published the second and the other consumer is emitting it.
C8_Witness ==
    /\ cpc["v1"] = "yield"
    /\ Len(published) = 2
    /\ Payload(part["v1"]) = published[1]
    /\ cpc["v2"] = "yield"
    /\ Payload(part["v2"]) = published[2]

----
\* C9: a consumer is suspended on a part exactly when its last read returned a
\* frame, and the part's payload is that frame, framed as one multipart
\* section; after an empty read, or when frame_source is None, it emits nothing
\* and goes back to the top of its loop.  The generator ends only by being
\* closed at its yield; in every other position it has a next step or waits
\* for the lock.
C9_ConsumerEmits ==
    /\ [](\A c \in Consumers :
            /\ cpc[c] = "yield" <=> part[c] # None
            /\ cpc[c] = "yield" =>
                  /\ jpeg[c] # None
                  /\ jpeg[c] \in Range(published)
                  /\ Payload(part[c]) = jpeg[c]
                  /\ part[c].boundary = "--frame\r\n"
                  /\ part[c].header = "Content-Type: image/jpeg\r\n\r\n"
                  /\ part[c].terminator = "\r\n"
            /\ cpc[c] = "backoff" => jpeg[c] = None
            /\ cpc[c] \notin {"idle", "closed", "get_latest"} =>
                  ENABLED ConsumerStep(c))
    /\ [][\A c \in Consumers :
            /\ (cpc[c] = "get_latest_locked" /\ cpc'[c] = "yield") =>
                  latest_jpeg # None /\ Payload(part'[c]) = latest_jpeg
            /\ (cpc[c] = "get_latest_locked" /\ cpc'[c] = "backoff") =>
                  latest_jpeg = None
            /\ (cpc[c] = "top" /\ frame_source = None) =>
                  cpc'[c] \in {"top", "wait_source"}
            /\ cpc[c] \in {"backoff", "wait_source"} =>
                  cpc'[c] \in {cpc[c], "top"}
            /\ (cpc[c] # "closed" /\ cpc'[c] = "closed") => cpc[c] = "yield"]_vars

\* One consumer is suspended on a part carrying the second published frame
\* while the other, which read the slot when it was empty, is in its backoff.
C9_Witness ==
    /\ cpc["v1"] = "yield"
    /\ Len(published) >= 2
    /\ Payload(part["v1"]) = published[2]
    /\ cpc["v2"] = "backoff"

----
\* The number of acquired frames whose encoding failed.
EncodeFailures ==
    cycles - Len(published) - (IF ppc = "encode" THEN 1 ELSE 0)

\* Encoding has not succeeded: the slot is empty and an encode has failed.
EncodingFailed == latest_jpeg = None /\ EncodeFailures > 0

\* C10: in the running server under fair scheduling, when the device cannot be
\* opened, then, unless an encode fails while the slot is still empty, the
\* slot eventually holds a synthetic frame, and every connected viewer (whether
\* it connected before or after the first publish) eventually is suspended on
\* a part whose payload is a synthetic frame.
C10_ViewerGetsPlaceholder ==
    /\ (cap = "failed") ~> (IsSynthetic(latest_jpeg) \/ EncodingFailed)
    /\ \A c \in Consumers :
          (cap = "failed" /\ cpc[c] \notin {"idle", "closed"}) ~>
              \/ cpc[c] = "yield" /\ IsSynthetic(Payload(part[c]))
              \/ EncodingFailed

\* The open failed, no encode failed, and both viewers
\* have a synthetic part: one that polled the empty slot first (it is back in
\* its loop after its first part) and one that is suspended on its part.
C10_Witness ==
    /\ cap = "failed"
    /\ ~stop_event
    /\ EncodeFailures = 0
    /\ cpc["v1"] = "yield"
    /\ IsSynthetic(Payload(part["v1"]))
    /\ cpc["v2"] = "get_latest"
    /\ IsSynthetic(jpeg["v2"])

----
\* C11: once started, the capture thread leaves its loop only because the stop
\* event was set: whenever the thread is past its loop (at lines 57-58, ended,
\* or ended by an exception), the stop event is set.
C11_OnlyStopEndsLoop ==
    ppc \in {"after_loop", "done", "crashed"} => stop_event

----
\* A step of the generator c (every step of a generator moves its position).
ConsumerMoves(c) == cpc'[c] # cpc[c]

\* The capture thread can take its next step without waiting for any
\* generator; at the lock of _set_latest it waits at most for the generator
\* inside get_latest_jpeg, which can leave whatever the others do.  (At line
\* 44 the thread goes on when the event is set or cycles are left to model.)
ProducerNotHeldUp ==
    /\ ppc \in {"open", "acquire", "encode", "set_latest_locked", "sleep_call",
                "after_loop"} => ENABLED ProducerStep
    /\ (ppc = "while" /\ (stop_event \/ cycles < MaxCycles))
           => ENABLED ProducerStep
    /\ (ppc = "sleep" /\ sleep_left = 0) => ENABLED Wake
    /\ ppc = "set_latest" =>
           \/ ENABLED SetLatestAcquire
           \/ /\ lock \in Consumers
              /\ cpc[lock] = "get_latest_locked"
              /\ ENABLED GetLatestReturn(lock)

\* C12: producer and consumers are decoupled in one direction.  No step of a
\* generator (connecting, polling, reading, yielding, disconnecting) changes
\* the slot, the capture mode, the stop event or anything else of the capture
\* thread; the slot changes only by the store of _set_latest, to the buffer
\* the capture thread encoded; and the capture thread's steps never wait for
\* a generator, except for the lock while one generator is inside
\* get_latest_jpeg.
C12_ProducerIndependent ==
    /\ [][/\ \A c \in Consumers : ConsumerMoves(c) =>
                 /\ latest_jpeg' = latest_jpeg
                 /\ stop_event' = stop_event
                 /\ producer_vars' = producer_vars
          /\ latest_jpeg' # latest_jpeg =>
                 /\ ppc = "set_latest_locked"
                 /\ latest_jpeg' = buffer]_vars
    /\ []ProducerNotHeldUp

\* Both publishes were made while one viewer had disconnected after a part
\* and the other is being served one.
C12_Witness ==
    /\ PublishesDone = 2
    /\ cpc["v1"] = "closed"
    /\ cpc["v2"] = "yield"
    /\ Payload(part["v2"]) = Published(2)

----
\* The generator c returns from get_latest_jpeg (line 30) in this step.
ReadReturns(c) == cpc[c] = "get_latest_locked" /\ cpc'[c] # cpc[c]

\* C13: idempotent read.  When get_latest_jpeg returns and another
\* get_latest_jpeg call (of any generator) has returned since the last
\* _set_latest, the two calls return the same value; and the return leaves
\* the slot as it was.
C13_ReadIdempotent ==
    [][\A c \in Consumers : ReadReturns(c) =>
           /\ last_read # NoRead => jpeg'[c] = last_read
           /\ latest_jpeg' = latest_jpeg]_vars

\* Both generators have read the first frame, one after the other, and no
\* second frame has been stored.
C13_Witness ==
    /\ PublishesDone = 1
    /\ latest_jpeg = Published(1)
    /\ last_read = Published(1)
    /\ \A c \in Consumers : cpc[c] = "yield" /\ jpeg[c] = Published(1)

----
\* C14: a stop() whose bounded wait expired is logged.  When stop() has
\* returned and the capture thread is still running, the module has written a
\* log record.
C14_TimeoutIsLogged ==
    (spc = "returned" /\ ThreadAlive) => log # <<>>

----
\* The number of a frame in publish order, 0 for the empty slot's None.
PublishIndex(j) ==
    IF j = None THEN 0 ELSE CHOOSE i \in 1..Len(published) : published[i] = j

\* C17: every consumer emits frames in publish order.  When get_latest_jpeg
\* returns a frame to a generator, the generator yields a part with that
\* frame; the frame has been stored in the slot; its publish number is not
\* below that of the frame the generator emitted before (jpeg still holds
\* it); and for the connection's first part it is not below that of the
\* value the slot had when the connection started.
C17_EmitsInPublishOrder ==
    [][\A c \in Consumers : (ReadReturns(c) /\ jpeg'[c] # None) =>
           /\ cpc'[c] = "yield"
           /\ Payload(part'[c]) = jpeg'[c]
           /\ jpeg'[c] \in Range(published)
           /\ PublishIndex(jpeg'[c]) <= PublishesDone
           /\ PublishIndex(jpeg'[c]) >= PublishIndex(jpeg[c])
           /\ jpeg[c] = None =>
                  PublishIndex(jpeg'[c]) >= PublishIndex(slot_at_connect[c])]_vars

\* The slot holds the second frame.  One viewer has emitted the first frame
\* and is calling get_latest_jpeg again; the other connected while the slot
\* held the first frame, has emitted nothing yet, and is inside
\* get_latest_jpeg, about to be given the second frame as its first part.
C17_Witness ==
    /\ PublishesDone = 2
    /\ latest_jpeg = Published(2)
    /\ cpc["v1"] = "get_latest"
    /\ jpeg["v1"] = Published(1)
    /\ cpc["v2"] = "get_latest_locked"
    /\ jpeg["v2"] = None
    /\ slot_at_connect["v2"] = Published(1)

----
\* The capture thread has ended (normally or by an exception).
ThreadEnded == ppc \in {"done", "crashed"}

\* C18: after the stop event is set the capture thread stores at most one
\* more frame (that of the cycle already past the test of line 44); once the
\* thread has ended the slot is never written again; and generators go on
\* being given the slot's last value.
C18_AtMostOneLateFrame ==
    /\ [](stores_after_stop <= 1)
    /\ [](~stop_event => stores_after_stop = 0)
    /\ [][ThreadEnded => latest_jpeg' = latest_jpeg /\ ThreadEnded']_vars
    /\ [][\A c \in Consumers : (ThreadEnded /\ ReadReturns(c)) =>
              jpeg'[c] = latest_jpeg]_vars

\* The stop event was set during the second cycle, whose frame was stored
\* after it; the loop has ended, and a viewer that emitted the first frame is
\* inside get_latest_jpeg, being given that last frame.
C18_Witness ==
    /\ ppc = "done"
    /\ stores_after_stop = 1
    /\ PublishesDone = 2
    /\ latest_jpeg = Published(2)
    /\ \E c \in Consumers :
           /\ cpc[c] = "get_latest_locked"
           /\ jpeg[c] = Published(1)

----
(***************************************************************************)
(* The telemetry agent, src/agent.py: main() loads and validates the       *)
(* configuration, register_agent posts until it is answered 200, and       *)
(* telemetry_loop posts telemetry for ever.  The agent is a process of its *)
(* own; in its specification the streaming server is not running.          *)
(***************************************************************************)

\* Bound of the model: the POST counters tell apart 0..MaxCount POSTs and stay
\* at MaxCount from then on (the loops themselves go on).
MaxCount == 2

\* agent.py, line 21.
REGISTER_RETRY_SECONDS == 10

\* telemetry_loop, line 176: battery = 100.0 (percent).
BATTERY_FULL == 100

\* Strings are sequences of pieces.  DRONEX_URL values: "https://h",
\* "https://h/", "http://h/" and "HTTPS://h".
Urls == {<<"https://", "h">>, <<"https://", "h", "/">>,
         <<"http://", "h", "/">>, <<"HTTPS://", "h">>}

\* MODE values.
Modes == {"SIMULATION", "simulation", "mavlink", "MANUAL"}

\* TELEMETRY_INTERVAL values as JSON gives them to Python: the ints 5, 0 and
\* -2, the floats 2.5 and 0.5 (in halves), the strings "7" and "abc", null.
Intervals ==
    {[type |-> "int", value |-> 5], [type |-> "int", value |-> 0],
     [type |-> "int", value |-> -2],
     [type |-> "float", halves |-> 5], [type |-> "float", halves |-> 1],
     [type |-> "str", text |-> <<"7">>],
     [type |-> "str", text |-> <<"a", "b", "c">>],
     [type |-> "null"]}

\* The files --config can name: no file; a file open() cannot read; a name
\* ending in neither .json nor .yaml/.yml; a .yaml file where PyYAML is not
\* installed; a .json file that is not JSON; a .json file holding an array;
\* a .json file holding an object.
FileKinds ==
    {"missing", "unreadable", "other_extension", "yaml_without_pyyaml",
     "malformed_json", "json_array", "json_object"}

\* For an object: the required keys it lacks (validate_config, lines 72-79)
\* and the values of the keys validate_config looks at.
ConfigFiles ==
    {[kind |-> k, missing |-> {}, DRONEX_URL |-> <<"https://", "h">>,
      MODE |-> "SIMULATION",
      TELEMETRY_INTERVAL |-> [type |-> "int", value |-> 5]]
         : k \in FileKinds \ {"json_object"}}
    \cup
    {[kind |-> "json_object", missing |-> m, DRONEX_URL |-> u, MODE |-> mo,
      TELEMETRY_INTERVAL |-> i]
         : m \in {{}, {"DRONE_TOKEN"}}, u \in Urls, mo \in Modes,
           i \in Intervals}

\* requests.RequestException raised by session.post.
RequestException == [exception |-> "requests.RequestException"]

\* What session.post gives: a response with a status code, or the exception.
Responses ==
    {[status_code |-> c] : c \in {200, 201, 500}} \cup {RequestException}

\* The messages of the agent's logger.
MsgConfigError == "Error en configuracion: %s"

MsgStart == "Iniciando DRONEX Agent %s"

MsgRegisterOk == "Registro exitoso en DRONEX"

MsgRegisterFailed == "Registro fallo (%s): %s"

MsgRegisterNetwork == "Error de red al registrar: %s"

MsgRegisterRetry == "Reintentando registro en %s segundos..."

MsgTelemetryOk == "Telemetria enviada correctamente"

MsgTelemetryFailed == "Telemetria fallo (%s): %s"

MsgTelemetryNetwork == "Error de red al enviar telemetria: %s"

MsgMavlink == "MAVLINK mode no implementado aun. Usa SIMULATION."

\* str.rstrip("/")
RECURSIVE RStripSlash(_)
RStripSlash(u) ==
    IF u # <<>> /\ u[Len(u)] = "/"
       THEN RStripSlash(SubSeq(u, 1, Len(u) - 1))
       ELSE u

\* str.startswith("https://")
StartsWithHttps(u) == u # <<>> /\ u[1] = "https://"

\* str.upper()
Upper(m) ==
    CASE m = "simulation" -> "SIMULATION"
      [] m = "mavlink" -> "MAVLINK"
      [] OTHER -> m

Digits == <<"0", "1", "2", "3", "4", "5", "6", "7", "8", "9">>

IsDecimal(t) ==
    t # <<>> /\ \A k \in 1..Len(t) : \E d \in 1..Len(Digits) : Digits[d] = t[k]

RECURSIVE DecimalValue(_)
DecimalValue(t) ==
    IF t = <<>> THEN 0
    ELSE 10 * DecimalValue(SubSeq(t, 1, Len(t) - 1))
         + (CHOOSE d \in 1..Len(Digits) : Digits[d] = t[Len(t)]) - 1

\* int(x): an int is itself, a float is truncated towards zero, a string is
\* parsed or raises ValueError, None raises TypeError.
IntOf(x) ==
    CASE x.type = "int" -> [raised |-> "none", value |-> x.value]
      [] x.type = "float" ->
            [raised |-> "none",
             value |-> IF x.halves >= 0 THEN x.halves \div 2
                                        ELSE -((-x.halves) \div 2)]
      [] x.type = "str" ->
            IF IsDecimal(x.text)
               THEN [raised |-> "none", value |-> DecimalValue(x.text)]
               ELSE [raised |-> "ValueError", value |-> 0]
      [] OTHER -> [raised |-> "TypeError", value |-> 0]

\* load_config, lines 48-68: what the call raises ("none" if it returns).
LoadRaises(f) ==
    CASE f.kind = "missing" -> "ConfigError"
      [] f.kind = "unreadable" -> "OSError"
      [] f.kind = "other_extension" -> "ConfigError"
      [] f.kind = "yaml_without_pyyaml" -> "ConfigError"
      [] f.kind = "malformed_json" -> "JSONDecodeError"
      [] OTHER -> "none"

\* validate_config, lines 71-93: what the call raises on what load_config
\* returned ("none" if it returns).  An array has no keys().
ValidateRaises(f) ==
    CASE f.kind = "json_array" -> "AttributeError"
      [] f.missing # {} -> "ConfigError"
      [] ~StartsWithHttps(RStripSlash(f.DRONEX_URL)) -> "ConfigError"
      [] Upper(f.MODE) \notin {"SIMULATION", "MAVLINK"} -> "ConfigError"
      [] IntOf(f.TELEMETRY_INTERVAL).raised # "none" ->
            IntOf(f.TELEMETRY_INTERVAL).raised
      [] IntOf(f.TELEMETRY_INTERVAL).value <= 0 -> "ConfigError"
      [] OTHER -> "none"

\* validate_config, lines 95-100: the dict it returns.
Validated(f) ==
    [DRONEX_URL |-> RStripSlash(f.DRONEX_URL),
     MODE |-> Upper(f.MODE),
     TELEMETRY_INTERVAL |-> IntOf(f.TELEMETRY_INTERVAL).value]

\* main, line 220: except (ConfigError, json.JSONDecodeError)
Caught(e) == e \in {"ConfigError", "JSONDecodeError"}

\* A counter that stops at MaxCount.
Counted(n) == IF n < MaxCount THEN n + 1 ELSE MaxCount

\* The server process before it is started (a rate of 1 frame per second).
VideoNotStarted == VideoInit /\ simulation_fps = <<1, 1>>

\* python agent.py --config <file>
AgentInit ==
    /\ VideoNotStarted
    /\ apc = "main"
    /\ config_file \in ConfigFiles
    /\ config = None
    /\ response = None
    /\ sleep_arg = 0
    /\ battery = 0
    /\ register_posts = 0
    /\ telemetry_posts = 0
    /\ registered = FALSE
    /\ agent_log = {}
    /\ exit_status = Running

\* main, lines 218-222 with load_config: an exception main catches is logged
\* and main exits with status 1; any other exception leaves main uncaught
\* (the interpreter prints the traceback and exits with status 1).
AgentLoad ==
    /\ apc = "main"
    /\ LET e == LoadRaises(config_file) IN
          IF e = "none"
             THEN /\ apc' = "validate"
                  /\ UNCHANGED <<agent_log, exit_status>>
             ELSE IF Caught(e)
                     THEN /\ apc' = "exited"
                          /\ agent_log' = agent_log \cup {MsgConfigError}
                          /\ exit_status' = 1
                     ELSE /\ apc' = "traceback"
                          /\ exit_status' = 1
                          /\ UNCHANGED agent_log
    /\ UNCHANGED <<config_file, config, response, sleep_arg, battery,
                   register_posts, telemetry_posts, registered, video_vars>>

\* main, lines 218-229 with validate_config: as above; on success main logs
\* its start and has the validated config.
AgentValidate ==
    /\ apc = "validate"
    /\ LET e == ValidateRaises(config_file) IN
          IF e = "none"
             THEN /\ apc' = "register_post"
                  /\ config' = Validated(config_file)
                  /\ agent_log' = agent_log \cup {MsgStart}
                  /\ UNCHANGED exit_status
             ELSE IF Caught(e)
                     THEN /\ apc' = "exited"
                          /\ agent_log' = agent_log \cup {MsgConfigError}
                          /\ exit_status' = 1
                          /\ UNCHANGED config
                     ELSE /\ apc' = "traceback"
                          /\ exit_status' = 1
                          /\ UNCHANGED <<config, agent_log>>
    /\ UNCHANGED <<config_file, response, sleep_arg, battery, register_posts,
                   telemetry_posts, registered, video_vars>>

\* session.post returned a response with status code 200.
Answered200(r) == r # RequestException /\ r.status_code = 200

\* A register_agent that takes any outcome of the POST for a success.
RegisterSucceededAlways(r) == TRUE

\* register_agent, line 141: response.status_code == 200 (not reached when
\* session.post raised).
RegisterSucceeded(r) == Answered200(r)

\* register_agent, lines 134-151: one POST to /api/agent/register/ and what
\* follows it, up to the return or the call of time.sleep.
RegisterPost ==
    /\ apc = "register_post"
    /\ \E r \in Responses :
          /\ response' = r
          /\ register_posts' = Counted(register_posts)
          /\ registered' = (registered \/ Answered200(r))
          /\ IF RegisterSucceeded(r)
                THEN /\ apc' = "dispatch"
                     /\ agent_log' = agent_log \cup {MsgRegisterOk}
                     /\ UNCHANGED sleep_arg
                ELSE /\ apc' = "register_sleep"
                     /\ agent_log' = agent_log \cup
                            {IF r = RequestException THEN MsgRegisterNetwork
                                                     ELSE MsgRegisterFailed,
                             MsgRegisterRetry}
                     /\ sleep_arg' = REGISTER_RETRY_SECONDS
    /\ UNCHANGED <<config_file, config, battery, telemetry_posts, exit_status,
                   video_vars>>

\* register_agent, lines 151 and 133: time.sleep returns, next attempt.
RegisterRetry ==
    /\ apc = "register_sleep"
    /\ apc' = "register_post"
    /\ UNCHANGED <<config_file, config, response, sleep_arg, battery,
                   register_posts, telemetry_posts, registered, agent_log,
                   exit_status, video_vars>>

\* main, lines 233-237, and telemetry_loop, lines 174-176.  The battery is
\* counted in half percents.
Dispatch ==
    /\ apc = "dispatch"
    /\ IF config.MODE = "SIMULATION"
          THEN /\ apc' = "telemetry_post"
               /\ battery' = 2 * BATTERY_FULL
               /\ UNCHANGED <<agent_log, exit_status>>
          ELSE /\ apc' = "exited"
               /\ agent_log' = agent_log \cup {MsgMavlink}
               /\ exit_status' = 1
               /\ UNCHANGED battery
    /\ UNCHANGED <<config_file, config, response, sleep_arg, register_posts,
                   telemetry_posts, registered, video_vars>>

\* A telemetry_loop that goes back to registering when a POST failed.
NextAfterTelemetryReregister(r) ==
    IF Answered200(r) THEN "telemetry_sleep" ELSE "register_post"

\* telemetry_loop, lines 192-204: where the loop goes after a POST.
NextAfterTelemetry(r) == "telemetry_sleep"

\* telemetry_loop, lines 179-204: one POST to /api/agent/telemetry/, the log
\* record, the battery drain (random.uniform(0.5, 1.5), floored at 0) and the
\* call of time.sleep(interval).
TelemetryPost ==
    /\ apc = "telemetry_post"
    /\ \E r \in Responses, drain \in 1..3 :
          /\ response' = r
          /\ telemetry_posts' = Counted(telemetry_posts)
          /\ agent_log' = agent_log \cup
                 {IF r = RequestException THEN MsgTelemetryNetwork
                  ELSE IF r.status_code = 200 THEN MsgTelemetryOk
                  ELSE MsgTelemetryFailed}
          /\ battery' = IF battery - drain > 0 THEN battery - drain ELSE 0
          /\ sleep_arg' = config.TELEMETRY_INTERVAL
          /\ apc' = NextAfterTelemetry(r)
    /\ UNCHANGED <<config_file, config, register_posts, registered,
                   exit_status, video_vars>>

\* telemetry_loop, lines 204 and 178: time.sleep returns, next cycle.
TelemetryWake ==
    /\ apc = "telemetry_sleep"
    /\ apc' = "telemetry_post"
    /\ UNCHANGED <<config_file, config, response, sleep_arg, battery,
                   register_posts, telemetry_posts, registered, agent_log,
                   exit_status, video_vars>>

AgentNext ==
    \/ AgentLoad
    \/ AgentValidate
    \/ RegisterPost
    \/ RegisterRetry
    \/ Dispatch
    \/ TelemetryPost
    \/ TelemetryWake

AgentSpec == AgentInit /\ [][AgentNext]_vars

\* The configurations with which main reaches telemetry_loop, in one spelling
\* of DRONEX_URL and MODE and with each interval validate_config accepts.
TelemetryConfigFiles ==
    {f \in ConfigFiles :
        /\ LoadRaises(f) = "none"
        /\ ValidateRaises(f) = "none"
        /\ f.DRONEX_URL = <<"https://", "h">>
        /\ f.MODE = "SIMULATION"}

\* The agent started with one of these configurations.
TelemetryInit == AgentInit /\ config_file \in TelemetryConfigFiles

\* The agent process keeps running: session.post returns or raises within
\* its timeout, and time.sleep returns.
AgentFairSpec ==
    TelemetryInit /\ [][AgentNext]_vars /\ WF_vars(AgentNext)

----
\* The agent's position changes in this step.
AgentMoves == apc' # apc

\* C15: no telemetry before a successful registration.  A telemetry POST is
\* sent, and main is past register_agent, only after a register POST was
\* answered 200.  After every other outcome of a register POST (another
\* status code, a network error) register_agent sleeps REGISTER_RETRY_SECONDS
\* and posts again, however many attempts were made before; it returns only
\* on a 200.
C15_RegisterBeforeTelemetry ==
    /\ [](telemetry_posts > 0 => registered)
    /\ [](apc \in {"dispatch", "telemetry_post", "telemetry_sleep"}
              => registered)
    /\ [][(apc = "register_post" /\ AgentMoves) =>
              IF Answered200(response')
                 THEN apc' = "dispatch"
                 ELSE apc' = "register_sleep"
                      /\ sleep_arg' = REGISTER_RETRY_SECONDS]_vars
    /\ [][(apc = "register_sleep" /\ AgentMoves) =>
              apc' = "register_post"]_vars
    /\ [](apc = "register_sleep" => ENABLED RegisterRetry)
    /\ [](apc = "register_post" => ENABLED RegisterPost)

\* Register POSTs failed with a status code and with a network error, were
\* retried, one was answered 200, and telemetry has been posted since.
C15_Witness ==
    /\ register_posts = MaxCount
    /\ {MsgRegisterFailed, MsgRegisterNetwork, MsgRegisterRetry} \subseteq agent_log
    /\ registered
    /\ telemetry_posts > 0

\* telemetry_loop is running.
InTelemetryLoop == apc \in {"telemetry_post", "telemetry_sleep"}

\* C16: telemetry for ever.  Once telemetry_loop runs, the agent never leaves
\* it and sends no register POST; after every telemetry POST, whatever its
\* outcome, the loop sleeps the configured interval and then posts again; and
\* under fair scheduling the next POST always comes.
C16_TelemetryForever ==
    /\ [][InTelemetryLoop =>
              InTelemetryLoop' /\ register_posts' = register_posts]_vars
    /\ [][(apc = "telemetry_post" /\ AgentMoves) =>
              /\ apc' = "telemetry_sleep"
              /\ sleep_arg' = config.TELEMETRY_INTERVAL]_vars
    /\ [][(apc = "telemetry_sleep" /\ AgentMoves) =>
              apc' = "telemetry_post"]_vars
    /\ (apc = "telemetry_sleep") ~> (apc = "telemetry_post")
    /\ (apc = "telemetry_post") ~> (apc = "telemetry_sleep")

\* Telemetry POSTs have failed with a status code and with a network error,
\* the last one with a network error, the battery is empty, and the loop is
\* about to post again.
C16_Witness ==
    /\ apc = "telemetry_post"
    /\ telemetry_posts = MaxCount
    /\ {MsgTelemetryFailed, MsgTelemetryNetwork} \subseteq agent_log
    /\ response = RequestException
    /\ battery = 0

\* The configurations the claim calls missing, unreadable or invalid: no
\* readable JSON object; a required key missing; a DRONEX_URL that does not
\* start with https://; a MODE that is neither SIMULATION nor MAVLINK in any
\* letter case; a TELEMETRY_INTERVAL that is not a positive integer (a
\* number written as a string, "7", is left out as a matter of reading).
ConfigInvalid(f) ==
    \/ f.kind # "json_object"
    \/ f.missing # {}
    \/ f.DRONEX_URL[1] # "https://"
    \/ f.MODE \notin {"SIMULATION", "simulation", "mavlink"}
    \/ f.TELEMETRY_INTERVAL.type \in {"float", "null"}
    \/ f.TELEMETRY_INTERVAL.type = "int" /\ f.TELEMETRY_INTERVAL.value <= 0
    \/ f.TELEMETRY_INTERVAL.type = "str"
           /\ ~IsDecimal(f.TELEMETRY_INTERVAL.text)

\* C19: with a missing, unreadable or invalid configuration the agent sends
\* no register and no telemetry POST, and it ends with a configuration error
\* in its log and exit status 1.
C19_InvalidConfigRejected ==
    ConfigInvalid(config_file) =>
        /\ register_posts = 0
        /\ telemetry_posts = 0
        /\ apc \in {"main", "validate", "exited", "traceback"}
        /\ apc \in {"exited", "traceback"} =>
               /\ MsgConfigError \in agent_log
               /\ exit_status = 1

====
